---- MODULE Spec2Model ----
(***************************************************************************)
(* Model of src/server.js: the WhatsApp session lifecycle (client,         *)
(* connectionStatus, qrCodeData, destroyClient, initializeWhatsApp, the    *)
(* lifecycle event handlers, POST /disconnect) and the two batch routes    *)
(* (POST /send-single-media, POST /send-bulk-messages).                    *)
(*                                                                         *)
(* Scheduling is Node's: one callback runs to its next await without       *)
(* interleaving, and the continuation of an awaited async function runs    *)
(* as a microtask before any further I/O callback.  A step of the model    *)
(* is one such run; states in which a microtask is pending or synchronous  *)
(* code is still on the stack are "busy" and admit no other callback.      *)
(***************************************************************************)
EXTENDS Naturals, Sequences, FiniteSets, TLC

\* ------------------------------------------------------------------ bounds
\* number of teardowns (disconnect requests + 'disconnected' events) per run
MaxTeardowns == 2

\* every teardown constructs one client; one more is constructed at startup
MaxClients == MaxTeardowns + 1

ClientIds == 1..MaxClients
HandlerIds == 1..MaxTeardowns

\* ------------------------------------------------------------ JS values
\* `null` / `undefined` of the handle and of qrCodeData
Null == 0

\* the QR payloads a 'qr' event is modelled to carry (opaque strings,
\* numbered from 1)
QrPayloads == {1}

\* percentages a 'loading_screen' event is modelled to carry
Percents == {100}

\* `connecting:${percent}`
Connecting(percent) ==
    IF percent = 0 THEN "connecting:0" ELSE "connecting:100"

VARIABLES
    client,            \* `let client`: Null or the id of a Client instance
    connectionStatus,  \* `let connectionStatus`
    qrCodeData,        \* `let qrCodeData`: Null or the QR payload
    inst,              \* the Client instances constructed so far
    folders,           \* which of the folders of clearWhatsAppFolders exist
    handlers,          \* the teardown handlers (POST /disconnect, 'disconnected')
    authFailed,        \* history: an 'auth_failure' was handled and no disconnect
                       \* request or 'disconnected' event has arrived since
    initFailed,        \* history: a client.initialize() rejected, and since then
                       \* no disconnect request or lifecycle event has arrived
                       \* and no teardown has restarted the client
    bpc,               \* position of the batch route handler
    req,               \* req.body of the batch request
    bi,                \* index of the current recipient in `numbers`
    bk,                \* index of the current item in `mediaFiles`
    results,           \* `const results = { success: [], failed: [] }`
    response,          \* what the batch route answered
    calls,             \* client calls and media resolutions of the batch, in order
    rawNumber,         \* formatPhoneNumber on its own: the `number` argument,
    hint,              \* the `countryCode` argument,
    normalized         \* and what the successive applications returned

svars == <<client, connectionStatus, qrCodeData, inst, folders, handlers,
           authFailed, initFailed>>
bvars == <<bpc, req, bi, bk, results, response, calls>>
nvars == <<rawNumber, hint, normalized>>
vars == <<client, connectionStatus, qrCodeData, inst, folders, handlers,
          authFailed, initFailed, bpc, req, bi, bk, results, response, calls,
          rawNumber, hint, normalized>>

\* A Client instance: `made` once constructed, `live` from construction until
\* a destroy() call on it has succeeded, `initPending` while the promise of
\* its initialize() is unsettled.
NoInstance == [made |-> FALSE, live |-> FALSE, initPending |-> FALSE]
NewInstance == [made |-> TRUE, live |-> TRUE, initPending |-> TRUE]

\* A teardown handler slot.  kind: "none" (unused), "request" (POST
\* /disconnect) or "event" ('disconnected' listener).  pc: "awaitDestroy"
\* (suspended at `await client.destroy()`), "destroyed" (destroyClient has
\* returned, the caller's continuation is the pending microtask), "done".
\* target: the client whose destroy() is awaited.  threw: whether that
\* client.destroy() rejected (the catch of destroyClient logs it and nothing
\* keeps it once the caller has resumed).
NoResponse == [success |-> FALSE, message |-> "none", status |-> "none"]
NoHandler ==
    [kind |-> "none", pc |-> "idle", target |-> Null, threw |-> FALSE,
     response |-> NoResponse]

\* JS values of a request body: a string is the sequence of its characters
Str(chars) == [t |-> "string", v |-> chars]
Arr(elems) == [t |-> "array", v |-> elems]
\* a JS number, given by the characters of its toString()
Num(chars) == [t |-> "number", v |-> chars]
JsNull == [t |-> "null", v |-> <<>>]
Undefined == [t |-> "undefined", v |-> <<>>]

NoRequest ==
    [route |-> "none", numbers |-> Undefined, country |-> "", mediaPath |-> "",
     message |-> "", mediaFiles |-> <<>>]
NoBatchResponse == [code |-> 0, body |-> "none"]


\* ------------------------------------------------------------ scheduling
\* Positions of the batch handler at which its synchronous code is still
\* running (no await reached yet).
BusyPcs == {"loop", "afterReg", "media"}

\* Some callback has not yet reached its next suspension point: a teardown
\* whose destroyClient() returned and whose caller resumes in the next
\* microtask, or a batch handler between two awaits.
Busy ==
    \/ \E h \in HandlerIds : handlers[h].pc = "destroyed"
    \/ bpc \in BusyPcs

\* ------------------------------------------------------------ session
FoldersToDelete == {"uploads", ".wwebjs_auth", ".wwebjs_cache"}

\* clearWhatsAppFolders(): every existing folder of the list is removed
\* (rmSync recursive+force; an error is logged and the loop goes on).
clearWhatsAppFolders(fs) == fs \ FoldersToDelete

\* id of the next Client to be constructed
NextClientId == Cardinality({c \in ClientIds : inst[c].made}) + 1

\* slot of the next teardown handler
NextHandlerId == Cardinality({h \in HandlerIds : handlers[h].kind # "none"}) + 1

\* initializeWhatsApp(): sets the status, constructs a Client, stores it in
\* `client`, registers the listeners and calls client.initialize(), whose
\* promise is left pending (LocalAuth creates its folder synchronously).
\* Client.initialize is an async function, so the synchronous catch of
\* lines 209-213 cannot be entered.
initializeWhatsApp ==
    /\ connectionStatus' = "initializing"
    /\ client' = NextClientId
    /\ inst' = [inst EXCEPT ![NextClientId] = NewInstance]
    /\ folders' = folders \cup {".wwebjs_auth"}

\* the server after startup (line 217: initializeWhatsApp())
ServerInit ==
    /\ client = 1
    /\ connectionStatus = "initializing"
    /\ qrCodeData = Null
    /\ inst = [c \in ClientIds |-> IF c = 1 THEN NewInstance ELSE NoInstance]
    /\ folders = FoldersToDelete
    /\ handlers = [h \in HandlerIds |-> NoHandler]
    /\ authFailed = FALSE
    /\ initFailed = FALSE
    /\ bpc = "idle"
    /\ req = NoRequest
    /\ bi = 0
    /\ bk = 0
    /\ results = [success |-> <<>>, failed |-> <<>>]
    /\ response = NoBatchResponse
    /\ calls = <<>>

Init ==
    /\ ServerInit
    /\ rawNumber = Undefined
    /\ hint = ""
    /\ normalized = <<>>

\* client.on('qr', ...)
OnQr(c, qr) ==
    /\ ~Busy
    /\ inst[c].live
    /\ connectionStatus' = "waiting-for-qr"
    /\ qrCodeData' = qr
    /\ initFailed' = FALSE
    /\ UNCHANGED <<client, inst, folders, handlers, authFailed>>
    /\ UNCHANGED bvars
    /\ UNCHANGED nvars

\* client.on('loading_screen', ...)
OnLoadingScreen(c, percent) ==
    /\ ~Busy
    /\ inst[c].live
    /\ connectionStatus' = Connecting(percent)
    /\ initFailed' = FALSE
    /\ UNCHANGED <<client, qrCodeData, inst, folders, handlers, authFailed>>
    /\ UNCHANGED bvars
    /\ UNCHANGED nvars

\* client.on('ready', ...)
OnReady(c) ==
    /\ ~Busy
    /\ inst[c].live
    /\ connectionStatus' = "connected"
    /\ qrCodeData' = Null
    /\ initFailed' = FALSE
    /\ UNCHANGED <<client, inst, folders, handlers, authFailed>>
    /\ UNCHANGED bvars
    /\ UNCHANGED nvars

\* client.on('authenticated', ...)
OnAuthenticated(c) ==
    /\ ~Busy
    /\ inst[c].live
    /\ connectionStatus' = "authenticating"
    /\ initFailed' = FALSE
    /\ UNCHANGED <<client, qrCodeData, inst, folders, handlers, authFailed>>
    /\ UNCHANGED bvars
    /\ UNCHANGED nvars

\* (mutant of AuthFailureEffect) the listener retries with a new client
AuthFailureRestarts ==
    /\ initializeWhatsApp
    /\ UNCHANGED <<qrCodeData, handlers>>

\* what the 'auth_failure' listener does to the session
AuthFailureEffect ==
    /\ connectionStatus' = "disconnected"
    /\ folders' = clearWhatsAppFolders(folders)
    /\ UNCHANGED <<client, qrCodeData, inst, handlers>>

\* client.on('auth_failure', ...)
OnAuthFailure(c) ==
    /\ ~Busy
    /\ inst[c].live
    /\ AuthFailureEffect
    /\ authFailed' = TRUE
    /\ initFailed' = FALSE
    /\ UNCHANGED bvars
    /\ UNCHANGED nvars

\* (mutant of InitializeSettles) the .catch retries with a new client
InitializeSettlesRetries(c, ok) ==
    /\ ~Busy
    /\ inst[c].initPending
    /\ IF ok
         THEN /\ inst' = [inst EXCEPT ![c].initPending = FALSE]
              /\ UNCHANGED <<client, connectionStatus, folders>>
         ELSE /\ NextClientId <= MaxClients
              /\ connectionStatus' = "initializing"
              /\ client' = NextClientId
              /\ inst' = [inst EXCEPT ![c].initPending = FALSE,
                                      ![NextClientId] = NewInstance]
              /\ folders' = clearWhatsAppFolders(folders) \cup {".wwebjs_auth"}
    /\ initFailed' = (initFailed \/ ~ok)
    /\ UNCHANGED <<qrCodeData, handlers, authFailed>>
    /\ UNCHANGED bvars
    /\ UNCHANGED nvars

\* client.initialize() settles: nothing is attached to its fulfilment; its
\* rejection runs the .catch of lines 204-208.
InitializeSettles(c, ok) ==
    /\ ~Busy
    /\ inst[c].initPending
    /\ inst' = [inst EXCEPT ![c].initPending = FALSE]
    /\ IF ok
         THEN UNCHANGED <<connectionStatus, folders>>
         ELSE /\ connectionStatus' = "disconnected"
              /\ folders' = clearWhatsAppFolders(folders)
    /\ initFailed' = (initFailed \/ ~ok)
    /\ UNCHANGED <<client, qrCodeData, handlers, authFailed>>
    /\ UNCHANGED bvars
    /\ UNCHANGED nvars

\* destroyClient() up to its first suspension: the status is set, and when a
\* handle exists client.destroy() is called and awaited; when none exists the
\* function runs to its end at once.
destroyClientBegin(h, kind) ==
    IF client # Null
      THEN /\ connectionStatus' = "disconnecting"
           /\ handlers' = [handlers EXCEPT ![h] =
                  [NoHandler EXCEPT !.kind = kind, !.pc = "awaitDestroy",
                                    !.target = client]]
           /\ UNCHANGED <<client, qrCodeData, inst, folders>>
      ELSE /\ connectionStatus' = "disconnected"
           /\ qrCodeData' = Null
           /\ folders' = clearWhatsAppFolders(folders)
           /\ handlers' = [handlers EXCEPT ![h] =
                  [NoHandler EXCEPT !.kind = kind, !.pc = "destroyed"]]
           /\ UNCHANGED <<client, inst>>

\* the handle after `await client.destroy()`: `client = null` stands inside
\* the try, after the await, so it is skipped when destroy() throws
HandleAfterDestroy(ok) == IF ok THEN Null ELSE client

\* destroyClient() from the settlement of client.destroy() to its return
destroyClientResume(h, ok) ==
    /\ client' = HandleAfterDestroy(ok)
    /\ inst' = IF ok THEN [inst EXCEPT ![handlers[h].target].live = FALSE]
                     ELSE inst
    /\ connectionStatus' = "disconnected"
    /\ qrCodeData' = Null
    /\ folders' = clearWhatsAppFolders(folders)
    /\ handlers' = [handlers EXCEPT ![h].pc = "destroyed", ![h].threw = ~ok,
                                    ![h].target = Null]

\* app.post('/disconnect', ...) up to `await destroyClient()`
DisconnectRequest ==
    /\ ~Busy
    /\ NextHandlerId <= MaxTeardowns
    /\ destroyClientBegin(NextHandlerId, "request")
    /\ authFailed' = FALSE
    /\ initFailed' = FALSE
    /\ UNCHANGED bvars
    /\ UNCHANGED nvars

\* client.on('disconnected', ...) up to `await destroyClient()`
OnDisconnected(c) ==
    /\ ~Busy
    /\ inst[c].live
    /\ NextHandlerId <= MaxTeardowns
    /\ destroyClientBegin(NextHandlerId, "event")
    /\ authFailed' = FALSE
    /\ initFailed' = FALSE
    /\ UNCHANGED bvars
    /\ UNCHANGED nvars

\* client.destroy() of teardown h settles (ok: fulfilled, ~ok: rejected) and
\* destroyClient() runs to its return
DestroySettles(h, ok) ==
    /\ ~Busy
    /\ handlers[h].pc = "awaitDestroy"
    /\ destroyClientResume(h, ok)
    /\ UNCHANGED <<authFailed, initFailed>>
    /\ UNCHANGED bvars
    /\ UNCHANGED nvars

\* (mutant of DisconnectedListenerTail) the listener tears down and stops
DisconnectedListenerStops(h) ==
    /\ handlers' = [handlers EXCEPT ![h].pc = "done", ![h].threw = FALSE]
    /\ UNCHANGED <<client, connectionStatus, qrCodeData, inst, folders>>

\* the body of the 'disconnected' listener after `await destroyClient()`
DisconnectedListenerTail(h) ==
    /\ initializeWhatsApp
    /\ handlers' = [handlers EXCEPT ![h].pc = "done", ![h].threw = FALSE]
    /\ UNCHANGED qrCodeData

\* (mutant of DisconnectRouteTail) the route reports a failed shutdown
DisconnectRouteReportsFailure(h) ==
    /\ initializeWhatsApp
    /\ handlers' = [handlers EXCEPT
          ![h].pc = "done", ![h].threw = FALSE,
          ![h].response = [success |-> ~handlers[h].threw,
                           message |-> "Disconnected successfully",
                           status |-> connectionStatus']]
    /\ UNCHANGED qrCodeData

\* the body of POST /disconnect after `await destroyClient()`: line 230, then
\* initializeWhatsApp(), then res.json with the status read at that moment.
\* destroyClient() catches the error of client.destroy() and
\* clearWhatsAppFolders() its own, so the catch of lines 238-249 is not
\* entered.
DisconnectRouteTail(h) ==
    /\ initializeWhatsApp
    /\ handlers' = [handlers EXCEPT
          ![h].pc = "done", ![h].threw = FALSE,
          ![h].response = [success |-> TRUE,
                           message |-> "Disconnected successfully",
                           status |-> connectionStatus']]
    /\ UNCHANGED qrCodeData

\* the caller of destroyClient() resumes (the pending microtask)
TeardownContinues(h) ==
    /\ handlers[h].pc = "destroyed"
    /\ IF handlers[h].kind = "request"
         THEN DisconnectRouteTail(h)
         ELSE DisconnectedListenerTail(h)
    /\ initFailed' = FALSE
    /\ UNCHANGED authFailed
    /\ UNCHANGED bvars
    /\ UNCHANGED nvars

\* ------------------------------------------------------------ formatPhoneNumber
DigitChars == {"0", "1", "2", "3", "4", "5", "6", "7", "8", "9"}

\* String.prototype.startsWith
StartsWith(chars, prefix) ==
    /\ Len(chars) >= Len(prefix)
    /\ SubSeq(chars, 1, Len(prefix)) = prefix

\* .replace(/\D/g, '')
StripNonDigits(chars) == SelectSeq(chars, LAMBDA ch : ch \in DigitChars)

\* (mutant of FormatSA) 966 is prepended without looking for it
FormatSAAlwaysPrefixes(phone) ==
    <<"9", "6", "6">> \o (IF StartsWith(phone, <<"0">>)
                             THEN SubSeq(phone, 2, Len(phone)) ELSE phone)

\* case 'SA'
FormatSA(phone) ==
    LET p1 == IF StartsWith(phone, <<"0">>) THEN SubSeq(phone, 2, Len(phone))
                                            ELSE phone
    IN  IF StartsWith(p1, <<"9", "6", "6">>) THEN p1 ELSE <<"9", "6", "6">> \o p1

\* case '20'
FormatEG(phone) ==
    IF StartsWith(phone, <<"2", "0">>) THEN phone ELSE <<"2", "0">> \o phone

\* formatPhoneNumber(number, countryCode): number.toString() throws a TypeError
\* on null and undefined; otherwise the digits are rewritten per country.
formatPhoneNumber(number, countryCode) ==
    IF number.t \in {"null", "undefined"}
      THEN [threw |-> TRUE, phone |-> <<>>]
      ELSE LET phone == StripNonDigits(number.v)
           IN  [threw |-> FALSE,
                phone |-> CASE countryCode = "SA" -> FormatSA(phone)
                            [] countryCode = "20" -> FormatEG(phone)
                            [] OTHER -> phone]

\* ------------------------------------------------------------ media files
\* 16 * 1024 * 1024
MaxMediaBytes == 16777216

MediaPaths == {"uploads/a.jpg", "uploads/gone.jpg", "uploads/x.zzz",
               "uploads/gone.zzz", "uploads/big.mp4"}

\* The files the media paths of a request may name: whether the file exists
\* while the uploads folder does, what mime.lookup answers for the path
\* ("" stands for false) and what statSync reports as its size.
FileStore(path) ==
    CASE path = "uploads/a.jpg" ->
           [exists |-> TRUE, mime |-> "image/jpeg", size |-> 1024]
      [] path = "uploads/gone.jpg" ->
           [exists |-> FALSE, mime |-> "image/jpeg", size |-> 0]
      [] path = "uploads/x.zzz" ->
           [exists |-> TRUE, mime |-> "", size |-> 20971520]
      [] path = "uploads/gone.zzz" ->
           [exists |-> FALSE, mime |-> "", size |-> 0]
      [] OTHER ->
           [exists |-> TRUE, mime |-> "video/mp4", size |-> 20971520]

\* (mutant of ResolveMedia) the size is looked at before the MIME type
ResolveMediaSizeFirst(path) ==
    IF ~("uploads" \in folders /\ FileStore(path).exists) THEN "media-not-found"
    ELSE IF FileStore(path).size > MaxMediaBytes THEN "too-large"
    ELSE IF FileStore(path).mime = "" THEN "unsupported-type"
    ELSE "ok"

\* lines 299-312 and 378-392: existence, then MIME type, then size; the
\* first failing check names the error
ResolveMedia(path) ==
    IF ~("uploads" \in folders /\ FileStore(path).exists) THEN "media-not-found"
    ELSE IF FileStore(path).mime = "" THEN "unsupported-type"
    ELSE IF FileStore(path).size > MaxMediaBytes THEN "too-large"
    ELSE "ok"

\* ------------------------------------------------------------ batch routes
\* number of recipients a request of the model lists at most
MaxRecipients == 2

\* the current recipient and its formatted number
CurrentNumber == req.numbers.v[bi]
Formatted == formatPhoneNumber(CurrentNumber, req.country)

\* an entry of `calls`: op is "isRegisteredUser", "sendMessage", "sendMedia"
\* (client calls), the answer of a registration query, "resolve" (media
\* resolution), the error a failed resolution threw, "delay" (the 1000 ms
\* timer) or "media-error" (the console.error of line 408); i and k are the
\* recipient and media indices,
\* to the formatted number of the chat id, on the client instance called
Call(op) == [op |-> op, i |-> bi, k |-> bk, to |-> Formatted.phone, on |-> client]

\* reasons of results.failed: the error message, and the message wrapped by
\* the inner catch of the media loop (line 409)
Reason(msg) == <<msg>>
Wrapped(msg) == <<"media-send-failed", msg>>

\* `formattedNumber || number` (line 418): the raw number when formatting
\* threw or produced the empty string
FailedNumber ==
    IF Formatted.threw \/ Formatted.phone = <<>>
      THEN CurrentNumber
      ELSE Str(Formatted.phone)

\* the catch of send-bulk-messages (lines 416-421)
BulkCatch(reason) ==
    /\ results' = [results EXCEPT
          !.failed = Append(@, [number |-> FailedNumber, reason |-> reason])]
    /\ bi' = bi + 1
    /\ bk' = 0
    /\ bpc' = "loop"
    /\ UNCHANGED response

\* (mutant of SingleCatch) no outer try/catch: the ReferenceError rejects the
\* promise of the route handler and the request is never answered
SingleCatchUnanswered(reason) ==
    /\ bpc' = "crashed"
    /\ UNCHANGED <<results, bi, bk, response>>

\* the catch of send-single-media (lines 328-333): `formattedNumber` is a
\* const of the try block and no outer binding of that name exists, so
\* building the object literal throws a ReferenceError before the push; the
\* outer catch (lines 338-340) answers 500.
SingleCatch(reason) ==
    /\ response' = [code |-> 500, body |-> "error"]
    /\ bpc' = "done"
    /\ UNCHANGED <<results, bi, bk>>

RecipientFails(reason) ==
    IF req.route = "single" THEN SingleCatch(reason) ELSE BulkCatch(reason)

\* results.success.push(formattedNumber) and the next iteration
RecipientSucceeds ==
    /\ results' = [results EXCEPT !.success = Append(@, Str(Formatted.phone))]
    /\ bi' = bi + 1
    /\ bk' = 0
    /\ bpc' = "loop"
    /\ UNCHANGED response

\* (mutant of MediaBegin) the media send is issued as soon as the item is
\* resolved, without the timer of line 401
MediaBeginSendsAtOnce ==
    /\ bpc = "media"
    /\ IF bk > Len(req.mediaFiles)
         THEN /\ bi' = bi + 1
              /\ bk' = 0
              /\ bpc' = "loop"
              /\ UNCHANGED <<results, response, calls>>
         ELSE /\ calls' = calls \o <<Call("resolve"), Call("sendMedia")>>
              /\ bpc' = "awaitSend"
              /\ UNCHANGED <<results, bi, bk, response>>
    /\ UNCHANGED req
    /\ UNCHANGED svars
    /\ UNCHANGED nvars

\* (mutant of MediaFails) the inner catch logs the error and swallows it, so
\* the media loop goes on with the next item
MediaFailsGoesOn(msg, log) ==
    /\ calls' = Append(log, Call("media-error"))
    /\ bk' = bk + 1
    /\ bpc' = "media"
    /\ UNCHANGED <<results, bi, response>>

\* the inner catch of the media loop (lines 407-410): console.error, then a
\* rethrow of the wrapped error, which ends the media loop of this recipient
\* in the outer catch; `log` is what the try block added to `calls`
MediaFails(msg, log) ==
    /\ calls' = Append(log, Call("media-error"))
    /\ RecipientFails(Wrapped(msg))

\* the preconditions of both routes (lines 279-285, 348-354)
ValidNumbers(numbers) == numbers.t = "array" /\ Len(numbers.v) > 0

\* a batch request arrives: the precondition checks, then the loop
ReceiveBatch(r) ==
    /\ ~Busy
    /\ bpc = "idle"
    /\ req' = r
    /\ IF client = Null \/ ~ValidNumbers(r.numbers)
         THEN /\ response' = [code |-> 400, body |-> "error"]
              /\ bpc' = "done"
              /\ UNCHANGED <<bi, bk, results>>
         ELSE /\ results' = [success |-> <<>>, failed |-> <<>>]
              /\ bi' = 1
              /\ bk' = 0
              /\ bpc' = "loop"
              /\ UNCHANGED response
    /\ UNCHANGED calls
    /\ UNCHANGED svars
    /\ UNCHANGED nvars

\* top of `for (const number of numbers)`: the end of the loop answers
\* res.json({ results }); otherwise the number is formatted and the
\* registration query is issued
RecipientBegin ==
    /\ bpc = "loop"
    /\ IF bi > Len(req.numbers.v)
         THEN /\ response' = [code |-> 200, body |-> "results"]
              /\ bpc' = "done"
              /\ UNCHANGED <<results, bi, bk, calls>>
         ELSE IF Formatted.threw \/ client = Null
         THEN /\ RecipientFails(Reason("type-error"))
              /\ UNCHANGED calls
         ELSE /\ calls' = Append(calls, Call("isRegisteredUser"))
              /\ bpc' = "awaitReg"
              /\ UNCHANGED <<results, bi, bk, response>>
    /\ UNCHANGED req
    /\ UNCHANGED svars
    /\ UNCHANGED nvars

\* how `calls` names the answer of a registration query
Answer(outcome) ==
    CASE outcome = "true" -> "registered"
      [] outcome = "false" -> "not-registered"
      [] OTHER -> "registration-error"

\* client.isRegisteredUser(chatId) settles: true, false or an error
RegistrationSettles(outcome) ==
    /\ ~Busy
    /\ bpc = "awaitReg"
    /\ CASE outcome = "true" ->
               /\ bpc' = "afterReg"
               /\ UNCHANGED <<results, bi, bk, response>>
         [] outcome = "false" -> RecipientFails(Reason("not-registered"))
         [] OTHER -> RecipientFails(Reason("client-error"))
    /\ calls' = Append(calls, Call(Answer(outcome)))
    /\ UNCHANGED req
    /\ UNCHANGED svars
    /\ UNCHANGED nvars

\* single route, lines 299-324: resolve the media and issue the send
SingleAfterRegistered ==
    IF ResolveMedia(req.mediaPath) # "ok"
      THEN /\ RecipientFails(Reason(ResolveMedia(req.mediaPath)))
           /\ calls' = calls \o <<Call("resolve"), Call(ResolveMedia(req.mediaPath))>>
      ELSE IF client = Null
      THEN /\ RecipientFails(Reason("type-error"))
           /\ calls' = Append(calls, Call("resolve"))
      ELSE /\ calls' = calls \o <<Call("resolve"), Call("sendMedia")>>
           /\ bpc' = "awaitSend"
           /\ UNCHANGED <<results, bi, bk, response>>

\* bulk route, lines 369-372: the text message, when one is given
BulkAfterRegistered ==
    IF req.message = ""
      THEN /\ bpc' = "media"
           /\ bk' = 1
           /\ UNCHANGED <<results, bi, response, calls>>
      ELSE IF client = Null
      THEN /\ RecipientFails(Reason("type-error"))
           /\ UNCHANGED calls
      ELSE /\ calls' = Append(calls, Call("sendMessage"))
           /\ bpc' = "awaitMsg"
           /\ UNCHANGED <<results, bi, bk, response>>

\* the code after a true registration answer, up to the next await
AfterRegistered ==
    /\ bpc = "afterReg"
    /\ IF req.route = "single" THEN SingleAfterRegistered ELSE BulkAfterRegistered
    /\ UNCHANGED req
    /\ UNCHANGED svars
    /\ UNCHANGED nvars

\* client.sendMessage(chatId, message) settles
MessageSettles(ok) ==
    /\ ~Busy
    /\ bpc = "awaitMsg"
    /\ IF ok
         THEN /\ bpc' = "delayMsg"
              /\ UNCHANGED <<results, bi, bk, response>>
         ELSE RecipientFails(Reason("client-error"))
    /\ UNCHANGED <<req, calls>>
    /\ UNCHANGED svars
    /\ UNCHANGED nvars

\* the timer of line 371 fires
MessageDelayElapses ==
    /\ ~Busy
    /\ bpc = "delayMsg"
    /\ calls' = Append(calls, Call("delay"))
    /\ bpc' = "media"
    /\ bk' = 1
    /\ UNCHANGED <<req, results, bi, response>>
    /\ UNCHANGED svars
    /\ UNCHANGED nvars

\* top of `for (... of mediaFiles)`: after the last item the recipient has
\* succeeded; otherwise the item is resolved and the timer of line 401 set
MediaBegin ==
    /\ bpc = "media"
    /\ IF bk > Len(req.mediaFiles)
         THEN /\ RecipientSucceeds
              /\ UNCHANGED calls
         ELSE IF ResolveMedia(req.mediaFiles[bk]) # "ok"
         THEN MediaFails(ResolveMedia(req.mediaFiles[bk]),
                         calls \o <<Call("resolve"),
                                    Call(ResolveMedia(req.mediaFiles[bk]))>>)
         ELSE /\ calls' = Append(calls, Call("resolve"))
              /\ bpc' = "delayMedia"
              /\ UNCHANGED <<results, bi, bk, response>>
    /\ UNCHANGED req
    /\ UNCHANGED svars
    /\ UNCHANGED nvars

\* the timer of line 401 fires and the media send is issued
MediaDelayElapses ==
    /\ ~Busy
    /\ bpc = "delayMedia"
    /\ IF client = Null
         THEN MediaFails("type-error", Append(calls, Call("delay")))
         ELSE /\ calls' = calls \o <<Call("delay"), Call("sendMedia")>>
              /\ bpc' = "awaitSend"
              /\ UNCHANGED <<results, bi, bk, response>>
    /\ UNCHANGED req
    /\ UNCHANGED svars
    /\ UNCHANGED nvars

\* client.sendMessage(chatId, media, ...) settles
SendSettles(ok) ==
    /\ ~Busy
    /\ bpc = "awaitSend"
    /\ IF req.route = "single"
         THEN /\ IF ok THEN RecipientSucceeds
                       ELSE RecipientFails(Reason("client-error"))
              /\ UNCHANGED calls
         ELSE IF ok THEN /\ bk' = bk + 1
                         /\ bpc' = "media"
                         /\ UNCHANGED <<results, bi, response, calls>>
                    ELSE MediaFails("client-error", calls)
    /\ UNCHANGED req
    /\ UNCHANGED svars
    /\ UNCHANGED nvars

\* ------------------------------------------------------------ requests
RawNumbers == {Str(<<"0", "5">>), Str(<<"9", "6", "6", "5">>), Str(<<"a">>), JsNull}

Countries == {"SA", "20", "EG"}

\* `numbers` that pass the precondition, and some that do not
NumberLists ==
    UNION {[1..n -> RawNumbers] : n \in 1..MaxRecipients}
InvalidNumbers == {Undefined, Str(<<"0", "5">>), Arr(<<>>)}

\* `mediaFiles`, each item given by its path (a missing mediaFiles behaves
\* as the empty list, line 375; captions are passed through to the client
\* and decide nothing)
MediaLists ==
    {<<>>,
     <<"uploads/a.jpg">>,
     <<"uploads/x.zzz">>,
     <<"uploads/gone.zzz">>,
     <<"uploads/a.jpg", "uploads/big.mp4">>,
     <<"uploads/a.jpg", "uploads/gone.jpg", "uploads/a.jpg">>,
     <<"uploads/a.jpg", "uploads/a.jpg", "uploads/a.jpg">>}

SingleRequests ==
    [route : {"single"},
     numbers : {Arr(l) : l \in NumberLists} \cup InvalidNumbers,
     country : Countries,
     mediaPath : MediaPaths,
     message : {""},
     mediaFiles : {<<>>}]

BulkRequests ==
    [route : {"bulk"},
     numbers : {Arr(l) : l \in NumberLists} \cup InvalidNumbers,
     country : Countries,
     mediaPath : {""},
     message : {"", "hi"},
     mediaFiles : MediaLists]

Requests == SingleRequests \cup BulkRequests

\* the requests sent while the session changes underneath
SmallRequests ==
    {r \in Requests :
        /\ r.country = "SA"
        /\ r.numbers = Arr(<<Str(<<"0", "5">>)>>)
        /\ r.mediaPath \in {"", "uploads/a.jpg"}
        /\ r.message = IF r.route = "bulk" THEN "hi" ELSE ""
        /\ r.mediaFiles \in {<<>>, <<"uploads/a.jpg">>}
        /\ r.route = "bulk" => r.mediaFiles # <<>>}

RegistrationOutcomes == {"true", "false", "error"}

BatchSteps ==
    \/ RecipientBegin
    \/ \E o \in RegistrationOutcomes : RegistrationSettles(o)
    \/ AfterRegistered
    \/ \E ok \in BOOLEAN : MessageSettles(ok)
    \/ MessageDelayElapses
    \/ MediaBegin
    \/ MediaDelayElapses
    \/ \E ok \in BOOLEAN : SendSettles(ok)

\* some request of the set arrives at a batch route
ReceiveAny(requests) ==
    /\ bpc = "idle"
    /\ \E r \in requests : ReceiveBatch(r)

BatchNext ==
    \/ ReceiveAny(Requests)
    \/ BatchSteps

SpecBatch == Init /\ [][BatchNext]_vars

SessionNext ==
    \/ \E c \in ClientIds, qr \in QrPayloads : OnQr(c, qr)
    \/ \E c \in ClientIds, p \in Percents : OnLoadingScreen(c, p)
    \/ \E c \in ClientIds : OnReady(c)
    \/ \E c \in ClientIds : OnAuthenticated(c)
    \/ \E c \in ClientIds : OnAuthFailure(c)
    \/ \E c \in ClientIds, ok \in BOOLEAN : InitializeSettles(c, ok)
    \/ DisconnectRequest
    \/ \E c \in ClientIds : OnDisconnected(c)
    \/ \E h \in HandlerIds, ok \in BOOLEAN : DestroySettles(h, ok)
    \/ \E h \in HandlerIds : TeardownContinues(h)

SpecSession == Init /\ [][SessionNext]_vars

\* An awaited client.destroy() settles (fulfils or rejects), and the event
\* loop runs the continuation that waits for destroyClient().
TeardownFairness ==
    \A h \in HandlerIds :
        /\ WF_vars(\E ok \in BOOLEAN : DestroySettles(h, ok))
        /\ WF_vars(TeardownContinues(h))

FairSpecSession == SpecSession /\ TeardownFairness

Next ==
    \/ SessionNext
    \/ ReceiveAny(SmallRequests)
    \/ BatchSteps

Spec == Init /\ [][Next]_vars

\* ------------------------------------------------------------ dispatch and teardown
\* the requests sent while teardowns run: on each route a list of two
\* recipients, the second of which fails, and a list that fails the
\* precondition
DispatchRequests ==
    {r \in Requests :
        /\ r.country = "SA"
        /\ r.numbers \in {Arr(<<Str(<<"0", "5">>), JsNull>>), Arr(<<>>)}
        /\ r.mediaPath \in {"", "uploads/a.jpg"}
        /\ r.message = IF r.route = "bulk" THEN "hi" ELSE ""
        /\ r.mediaFiles = IF r.route = "bulk" THEN <<"uploads/a.jpg">> ELSE <<>>}

\* The batch routes read `client` and the uploads folder and nothing else of
\* the session, so they run here beside the steps that write those: the two
\* teardowns (destroyClient, initializeWhatsApp) and a listener that calls
\* clearWhatsAppFolders.
DispatchNext ==
    \/ DisconnectRequest
    \/ \E c \in ClientIds : OnDisconnected(c)
    \/ \E c \in ClientIds : OnAuthFailure(c)
    \/ \E h \in HandlerIds, ok \in BOOLEAN : DestroySettles(h, ok)
    \/ \E h \in HandlerIds : TeardownContinues(h)
    \/ ReceiveAny(DispatchRequests)
    \/ BatchSteps

SpecDispatch == Init /\ [][DispatchNext]_vars

\* Synchronous code runs on to its next await, the continuation of an await
\* runs once the awaited promise has settled, the timers fire, and every
\* client call of the batch returns or fails.
DispatchFairness ==
    /\ WF_vars(BatchSteps)
    /\ \A h \in HandlerIds : WF_vars(TeardownContinues(h))

FairSpecDispatch == SpecDispatch /\ DispatchFairness

\* ------------------------------------------------------------ formatPhoneNumber alone
\* length of the raw strings formatPhoneNumber is applied to
MaxDigits == 3

\* the characters of those strings: the digits the country cases look for,
\* and a non-digit
RawChars == {"0", "2", "6", "9", "+"}

\* what an element of `numbers` can be (JSON): strings, numbers, null, and
\* the undefined of a hole; a few longer strings beside the short ones
RawValues ==
    {Str(chars) : chars \in UNION {[1..n -> RawChars] : n \in 0..MaxDigits}}
    \cup {Str(<<"0", "5", "0", "1", "2", "3", "4", "5", "6", "7">>),
          Str(<<"9", "6", "6", "5", "0", "1", "2", "3", "4", "5", "6", "7">>),
          Str(<<"+", "9", "6", "6", " ", "5", "0", "-", "1", "2">>),
          Str(<<"0", "0", "9", "6", "6", "5">>),
          Str(<<"0", "9", "6", "6", "5">>),
          Str(<<"0", "2", "0", "1">>),
          Num(<<"5", "0", "1">>),
          Num(<<"1", "e", "+", "2", "1">>),
          JsNull,
          Undefined}

InitNormalizer ==
    /\ ServerInit
    /\ rawNumber \in RawValues
    /\ hint \in Countries
    /\ normalized = <<>>

\* formatPhoneNumber is applied to the raw number, and then to the string
\* it returned (an application that threw returns nothing to go on with)
Normalize ==
    /\ Len(normalized) < 2
    /\ Len(normalized) = 1 => ~normalized[1].threw
    /\ normalized' = Append(normalized,
          formatPhoneNumber(IF normalized = <<>> THEN rawNumber
                                                ELSE Str(normalized[1].phone),
                            hint))
    /\ UNCHANGED <<rawNumber, hint>>
    /\ UNCHANGED svars
    /\ UNCHANGED bvars

SpecNormalizer == InitNormalizer /\ [][Normalize]_vars

\* ====================================================================
\* Properties
\* ====================================================================

\* the batch passed the precondition checks and has answered
BatchAnswered == bpc = "done" /\ response.code # 400

\* the elements of seq at the indices of S, in the order of seq
RECURSIVE Pick(_, _, _)
Pick(seq, S, from) ==
    IF from > Len(seq) THEN <<>>
    ELSE (IF from \in S THEN <<seq[from]>> ELSE <<>>) \o Pick(seq, S, from + 1)

\* the canonical id of a recipient, as a JS value (none when formatting throws)
Canonical(number) == Str(formatPhoneNumber(number, req.country).phone)

\* entry `e` of a result sequence names recipient `number`: by its canonical
\* id or, in `failed`, by the raw value given in the request
NamesRecipient(e, number) == e = Canonical(number) \/ e = number

\* seq (a sequence of names) lists exactly the recipients `numbers` one by one
ListsRecipients(seq, numbers) ==
    /\ Len(seq) = Len(numbers)
    /\ \A j \in 1..Len(seq) : NamesRecipient(seq[j], numbers[j])

\* results partition the input: some set S of positions went to success and
\* the others to failed, each sequence in input order
ResultsPartitionInput ==
    \E S \in SUBSET (1..Len(req.numbers.v)) :
        /\ results.success = [j \in 1..Len(Pick(req.numbers.v, S, 1)) |->
                                 Canonical(Pick(req.numbers.v, S, 1)[j])]
        /\ ListsRecipients([j \in 1..Len(results.failed) |-> results.failed[j].number],
                           Pick(req.numbers.v, (1..Len(req.numbers.v)) \ S, 1))

\* C1: in both batch routes, once the preconditions pass, the answer is the
\* results object and it places every input recipient in exactly one of
\* success and failed, each sequence in input order.
C1_EveryRecipientInExactlyOneList ==
    BatchAnswered =>
        /\ response = [code |-> 200, body |-> "results"]
        /\ ResultsPartitionInput

\* C1 restricted to send-bulk-messages (the route on which it holds)
C1_BulkPartition ==
    (BatchAnswered /\ req.route = "bulk") =>
        /\ response = [code |-> 200, body |-> "results"]
        /\ ResultsPartitionInput

\* C2: in send-single-media a per-recipient failure never aborts the batch:
\* the call answers 200 with the results object and every recipient of the
\* list has been processed into success or failed (with a reason).
C2_SingleFailureKeepsBatchGoing ==
    (BatchAnswered /\ req.route = "single") =>
        /\ response.code = 200
        /\ response.body = "results"
        /\ Len(results.success) + Len(results.failed) = Len(req.numbers.v)
        /\ \A j \in 1..Len(results.failed) : Len(results.failed[j].reason) > 0

\* --- C3
MediaOps == {"resolve", "sendMedia"}

\* the positions of `calls` holding a media error
MediaErrorAt == {j \in 1..Len(calls) : calls[j].op = "media-error"}

\* the entries of results.failed whose reason was wrapped by the media loop
WrappedFailures ==
    SelectSeq(results.failed, LAMBDA f : Head(f.reason) = "media-send-failed")

\* the media indices resolved for recipient i, in call order
ResolvedFor(i) ==
    LET own == SelectSeq(calls, LAMBDA c : c.op = "resolve" /\ c.i = i)
    IN  [j \in 1..Len(own) |-> own[j].k]

\* the recipients whose media loop failed, in call order
MediaFailedRecipients ==
    LET errs == SelectSeq(calls, LAMBDA c : c.op = "media-error")
    IN  [j \in 1..Len(errs) |-> req.numbers.v[errs[j].i]]

\* C3: in send-bulk-messages, once media item k of a recipient has failed,
\* nothing more is resolved or sent for that recipient; the recipient is
\* recorded once in failed, with a wrapped reason; the following recipients
\* are processed, each with its media items attempted from the first one on.
C3_MediaFailureEndsOnlyThatRecipient ==
    req.route = "bulk" =>
        /\ \A j \in MediaErrorAt : \A m \in (j + 1)..Len(calls) :
              ~(calls[m].i = calls[j].i /\ calls[m].op \in MediaOps)
        /\ ListsRecipients([j \in 1..Len(WrappedFailures) |-> WrappedFailures[j].number],
                           MediaFailedRecipients)
        /\ \A i \in 1..Len(req.numbers.v) :
              ResolvedFor(i) = [j \in 1..Len(ResolvedFor(i)) |-> j]
        /\ bpc = "done" /\ response.code # 400 =>
              /\ response.code = 200
              /\ Len(results.success) + Len(results.failed) = Len(req.numbers.v)
              /\ \A i \in 1..Len(req.numbers.v) :
                    \/ Len(ResolvedFor(i)) = Len(req.mediaFiles)
                    \/ \E j \in MediaErrorAt : calls[j].i = i
                    \/ ResolvedFor(i) = <<>>

\* the second of three media items failed for the first recipient, and all
\* three were then sent to the second recipient
C3_Witness ==
    /\ req.route = "bulk"
    /\ bpc = "done"
    /\ Len(req.mediaFiles) = 3
    /\ \E j \in MediaErrorAt : calls[j].i = 1 /\ calls[j].k = 2
    /\ \E j \in 1..Len(calls) :
          calls[j].op = "sendMedia" /\ calls[j].i = 2 /\ calls[j].k = 3
    /\ Len(results.failed) = 1
    /\ Len(results.success) = 1

\* --- C4
ClientOps == {"isRegisteredUser", "sendMessage", "sendMedia"}

\* C4: a registration check or a send is issued to the client only while
\* the session status is `connected`.
C4_ClientCallsOnlyWhileConnected ==
    [][\A j \in (Len(calls) + 1)..Len(calls') :
          calls'[j].op \in ClientOps => connectionStatus = "connected"]_vars

\* --- C5
LiveClients == {c \in ClientIds : inst[c].live}

\* C5: at every moment at most one client instance is live (constructed and
\* started, not yet shut down).
C5_AtMostOneLiveClient == Cardinality(LiveClients) <= 1

\* --- C6
MadeClients == {c \in ClientIds : inst[c].made}

\* handler h takes its last step in this step
Finishes(h) == handlers[h].pc # "done" /\ handlers'[h].pc = "done"

\* this step constructs and starts a new client and leaves it as the handle
StartsFreshClient ==
    /\ client' \in MadeClients' \ MadeClients
    /\ inst'[client'] = NewInstance
    /\ connectionStatus' = "initializing"

\* C6: every disconnect request is answered, with success = true - also
\* when client.destroy() threw - and at the answer a fresh client has been
\* started and the reported status is `initializing`.
C6_DisconnectAlwaysAnswersSuccess ==
    /\ [][\A h \in HandlerIds :
            (handlers[h].kind = "request" /\ Finishes(h)) =>
                /\ handlers[h].pc = "destroyed"
                /\ StartsFreshClient
                /\ handlers'[h].response.success = TRUE
                /\ handlers'[h].response.status = "initializing"]_vars
    /\ \A h \in HandlerIds :
          (handlers[h].kind = "request" /\ handlers[h].pc # "done")
              ~> (handlers[h].pc = "done" /\ handlers[h].response.success)

\* the only teardown so far is a disconnect request whose client.destroy()
\* threw (the client it failed to shut down is still live beside the fresh
\* one), and it has been answered
C6_Witness ==
    \E h \in HandlerIds :
        /\ handlers[h].kind = "request"
        /\ handlers[h].pc = "done"
        /\ \A g \in HandlerIds \ {h} : handlers[g].kind = "none"
        /\ Cardinality(LiveClients) = 2
        /\ handlers[h].response.success
        /\ handlers[h].response.status = "initializing"

\* --- C7
\* this step neither constructs a client nor turns the status to initializing
NoStart ==
    /\ MadeClients' = MadeClients
    /\ connectionStatus' = "initializing" => connectionStatus = "initializing"

TeardownPending ==
    \E h \in HandlerIds : handlers[h].pc \in {"awaitDestroy", "destroyed"}

\* C7 as stated: an auth-failure sets the status to disconnected and starts
\* no client, and from then on no start() happens until a disconnect request
\* or an underlying-disconnect event occurs.
C7_NoStartAfterAuthFailure ==
    [][/\ (\E c \in ClientIds : OnAuthFailure(c)) =>
            (connectionStatus' = "disconnected" /\ NoStart)
       /\ authFailed' => NoStart]_vars

\* C7 amended: as above, except that a teardown already begun by an earlier
\* disconnect request or underlying-disconnect event may still complete.
C7_NoStartAfterAuthFailureUnlessPending ==
    [][/\ (\E c \in ClientIds : OnAuthFailure(c)) =>
            (connectionStatus' = "disconnected" /\ NoStart)
       /\ (authFailed' /\ ~TeardownPending) => NoStart]_vars

\* an auth-failure has been handled, with no teardown in progress, and the
\* session sits in `disconnected` with its handle still set
C7_Witness ==
    /\ authFailed
    /\ ~TeardownPending
    /\ connectionStatus = "disconnected"
    /\ client # Null
    /\ \E h \in HandlerIds : handlers[h].pc = "done"

\* --- C8
\* C8: every underlying-disconnect event sets the status to disconnecting,
\* then (when client.destroy() has settled) to disconnected, then to
\* initializing with a newly constructed client; provided client.destroy()
\* settles, initializing is reached after every such event.
C8_DisconnectedEventRestarts ==
    /\ [][\A h \in HandlerIds : handlers'[h].kind = "event" =>
            /\ (handlers[h].kind = "none") =>
                  (handlers'[h].pc = "awaitDestroy" /\ connectionStatus' = "disconnecting")
            /\ (handlers[h].pc = "awaitDestroy" /\ handlers'[h].pc # "awaitDestroy") =>
                  (handlers'[h].pc = "destroyed" /\ connectionStatus' = "disconnected")
            /\ (handlers[h].pc = "destroyed" /\ handlers'[h].pc # "destroyed") =>
                  (handlers'[h].pc = "done" /\ StartsFreshClient)
            /\ Finishes(h) => handlers[h].pc = "destroyed"]_vars
    /\ \A h \in HandlerIds :
          (handlers[h].kind = "event" /\ handlers[h].pc # "done")
              ~> (handlers[h].kind = "event" /\ handlers[h].pc = "done")

\* every teardown of the run was an underlying-disconnect event, each with a
\* failed shutdown (no client has gone), and each has restarted the client
C8_Witness ==
    /\ \A h \in HandlerIds : handlers[h].kind = "event" /\ handlers[h].pc = "done"
    /\ LiveClients = ClientIds
    /\ connectionStatus = "initializing"
    /\ client = MaxClients

\* --- C9
\* C9: when destroyClient() returns, the handle is cleared, qrCodeData is
\* absent and the status is disconnected, whether client.destroy() succeeded
\* or threw.
C9_DestroyClearsHandle ==
    \A h \in HandlerIds : handlers[h].pc = "destroyed" =>
        /\ client = Null
        /\ qrCodeData = Null
        /\ connectionStatus = "disconnected"

\* --- C10
\* C10: qrCodeData is present only while the status is waiting-for-qr.
C10_QrOnlyWhileWaiting ==
    connectionStatus # "waiting-for-qr" => qrCodeData = Null

\* --- C11
\* C11: a batch call is rejected with HTTP 400, before any client call and
\* without a results object, exactly when a precondition is violated (no
\* client handle, or a recipient list that is missing, not an array or
\* empty); in every other case the call answers 200 with the results
\* object, whatever happened to the recipients.  (No request finds the
\* handle cleared: `client` is null only between destroyClient() and the
\* initializeWhatsApp() of the same microtask run.)
C11_OnlyPreconditionsFailTheCall ==
    bpc = "done" =>
        IF ~ValidNumbers(req.numbers)
          THEN /\ response = [code |-> 400, body |-> "error"]
               /\ calls = <<>>
          ELSE response = [code |-> 200, body |-> "results"]

\* C11 restricted to send-bulk-messages (the route on which it holds)
C11_BulkOnlyPreconditionsFailTheCall ==
    req.route = "bulk" => C11_OnlyPreconditionsFailTheCall

\* --- C12
CallingCodeSA == <<"9", "6", "6">>

\* the first application returned
Returned == Len(normalized) >= 1 /\ ~normalized[1].threw

\* the raw number is the string `chars` and has been normalized
NormalizedFrom(chars) == rawNumber = Str(chars) /\ Len(normalized) >= 1

\* C12: for a fixed country hint, normalizing the result again gives the same
\* result; under hint SA the result starts with 966: it is the digits of the
\* input without one leading zero, with 966 prepended unless they already
\* start with it; "0501234567" and "966501234567" both give "966501234567".
C12_NormalizeIdempotent ==
    /\ (Len(normalized) = 2) =>
          (~normalized[1].threw /\ normalized[2] = normalized[1])
    /\ (Returned /\ hint = "SA") =>
          LET digits == StripNonDigits(rawNumber.v)
              rest == IF digits # <<>> /\ Head(digits) = "0" THEN Tail(digits)
                                                            ELSE digits
              out == normalized[1].phone
          IN  /\ SubSeq(out, 1, 3) = CallingCodeSA
              /\ out \in {rest, CallingCodeSA \o rest}
              /\ out = rest <=> (Len(rest) >= 3 /\ SubSeq(rest, 1, 3) = CallingCodeSA)
    /\ (hint = "SA" /\ NormalizedFrom(<<"0", "5", "0", "1", "2", "3", "4", "5", "6", "7">>)) =>
          normalized[1].phone = <<"9", "6", "6", "5", "0", "1", "2", "3", "4", "5", "6", "7">>
    /\ (hint = "SA" /\ NormalizedFrom(<<"9", "6", "6", "5", "0", "1", "2", "3", "4", "5", "6", "7">>)) =>
          normalized[1].phone = <<"9", "6", "6", "5", "0", "1", "2", "3", "4", "5", "6", "7">>

\* "0966" under SA: the zero is dropped, 966 is found and nothing is
\* prepended; the second application has returned the same
C12_Witness ==
    /\ hint = "SA"
    /\ rawNumber = Str(<<"0", "9", "6", "6", "5">>)
    /\ Len(normalized) = 2
    /\ normalized[2].phone = <<"9", "6", "6", "5">>

\* --- C13
\* the digit characters of chars, in their order
RECURSIVE DigitsOf(_)
DigitsOf(chars) ==
    IF chars = <<>> THEN <<>>
    ELSE (IF Head(chars) \in DigitChars THEN <<Head(chars)>> ELSE <<>>)
         \o DigitsOf(Tail(chars))

\* the first application returned a string of digits only, which under an
\* unrecognized hint is the digits of the input in their order
ReturnsDigits ==
    /\ ~normalized[1].threw
    /\ \A j \in 1..Len(normalized[1].phone) : normalized[1].phone[j] \in DigitChars
    /\ hint \notin {"SA", "20"} => normalized[1].phone = DigitsOf(rawNumber.v)

\* C13: for every element a recipient list can contain (any string, a
\* number, null, a missing value) and every hint, formatPhoneNumber returns
\* and does not throw; what it returns consists of digit characters only and,
\* under an unrecognized hint, is exactly the digits of the input in order.
C13_NormalizeTotal ==
    Len(normalized) >= 1 => ReturnsDigits

\* C13 for the elements that have a toString method (all but null and a
\* missing value)
C13_NormalizeTotalOnValues ==
    (Len(normalized) >= 1 /\ rawNumber.t \notin {"null", "undefined"}) => ReturnsDigits

\* --- C14
SendOps == {"sendMessage", "sendMedia"}

\* positions of a batch handler suspended at a client call
AwaitPcs == {"awaitReg", "awaitMsg", "awaitSend"}

\* the positions of `calls` holding a send to recipient i
SendsTo(i) == {j \in 1..Len(calls) : calls[j].op \in SendOps /\ calls[j].i = i}

\* the media indices sent to recipient i, in call order
MediaSentTo(i) ==
    LET own == SelectSeq(calls, LAMBDA c : c.op = "sendMedia" /\ c.i = i)
    IN  [j \in 1..Len(own) |-> own[j].k]

\* the calls of the batch are in recipient order; for each recipient the text
\* message comes once and before every media item, the media items come in
\* the order of mediaFiles, and a delay lies between any two sends
CallsInOrder ==
    /\ \A j, m \in 1..Len(calls) : j < m => calls[j].i <= calls[m].i
    /\ \A i \in 1..Len(req.numbers.v) :
          /\ \A j, m \in SendsTo(i) :
                (calls[m].op = "sendMessage" /\ j # m) =>
                    (m < j /\ calls[j].op = "sendMedia")
          /\ MediaSentTo(i) = [j \in 1..Len(MediaSentTo(i)) |-> j]
          /\ \A j, m \in SendsTo(i) : j < m =>
                \E d \in (j + 1)..(m - 1) : calls[d].op = "delay" /\ calls[d].i = i
          /\ (req.message = "" => \A j \in SendsTo(i) : calls[j].op = "sendMedia")

\* this step issues a client call
IssuesClientCall ==
    \E j \in (Len(calls) + 1)..Len(calls') : calls'[j].op \in ClientOps

\* C14: in send-bulk-messages the client calls of a batch are issued one at a
\* time (none while another is outstanding) and recipient by recipient; for a
\* recipient the text message, when given, is sent before every media item,
\* the media items in their given order, and at least one inter-message delay
\* elapses between two consecutive sends to the same recipient.
C14_BulkCallsSequentialInOrder ==
    /\ [](req.route = "bulk" => CallsInOrder)
    /\ [][(req.route = "bulk" /\ IssuesClientCall) =>
             (bpc \notin AwaitPcs /\ Len(calls') - Len(calls) <= 2
              /\ calls'[Len(calls')].op \in ClientOps
              /\ (Len(calls') - Len(calls) = 2 =>
                     calls'[Len(calls) + 1].op \notin ClientOps))]_vars

\* a text message and three media items have been sent to each of two
\* recipients
C14_Witness ==
    /\ req.route = "bulk"
    /\ bpc = "done"
    /\ req.message # ""
    /\ Len(results.success) = 2
    /\ MediaSentTo(1) = <<1, 2, 3>>
    /\ MediaSentTo(2) = <<1, 2, 3>>
    /\ \E j \in SendsTo(2) : calls[j].op = "sendMessage"

\* --- C15
\* the entries of `calls` with operation op, and of results.failed with the
\* not-registered reason
CallsOf(op) == SelectSeq(calls, LAMBDA c : c.op = op)
NotRegisteredFailures ==
    SelectSeq(results.failed, LAMBDA f : f.reason = Reason("not-registered"))

\* every send follows a registration query of this batch for the same
\* recipient and chat id, and the answer `true` to that query
SendsFollowRegistration ==
    \A m \in 1..Len(calls) : calls[m].op \in SendOps =>
        \E j, a \in 1..(m - 1) :
            /\ j < a
            /\ calls[j].op = "isRegisteredUser"
            /\ calls[a].op = "registered"
            /\ calls[j].i = calls[m].i /\ calls[a].i = calls[m].i
            /\ calls[j].to = calls[m].to

\* a recipient answered `false` receives no send and is in results.failed with
\* the not-registered reason
UnregisteredOnlyRecorded ==
    /\ \A j, m \in 1..Len(calls) :
          calls[j].op = "not-registered" => ~(calls[m].op \in SendOps /\ calls[m].i = calls[j].i)
    /\ ListsRecipients(
          [j \in 1..Len(NotRegisteredFailures) |-> NotRegisteredFailures[j].number],
          [j \in 1..Len(CallsOf("not-registered")) |->
              req.numbers.v[CallsOf("not-registered")[j].i]])

\* C15: in both batch routes no message or media send is issued to a chat id
\* unless the registration query of this batch for it has answered true; a
\* recipient whose query answered false receives no send and is recorded in
\* results.failed with the not-registered reason.
C15_RegistrationPrecedesSends ==
    /\ SendsFollowRegistration
    /\ UnregisteredOnlyRecorded

\* C15 without the record in results.failed, on both routes
C15_NoSendUnlessRegistered ==
    /\ SendsFollowRegistration
    /\ \A j, m \in 1..Len(calls) :
          calls[j].op = "not-registered" => ~(calls[m].op \in SendOps /\ calls[m].i = calls[j].i)

\* C15 on send-bulk-messages
C15_BulkRegistrationPrecedesSends ==
    req.route = "bulk" => C15_RegistrationPrecedesSends

\* --- C16
ResolutionErrors == {"media-not-found", "unsupported-type", "too-large"}

\* the media path entry c of `calls` is about
PathOf(c) == IF req.route = "single" THEN req.mediaPath ELSE req.mediaFiles[c.k]

FileThere(path) == "uploads" \in folders /\ FileStore(path).exists
TypeKnown(path) == FileStore(path).mime # ""
SizeAllowed(path) == FileStore(path).size <= MaxMediaBytes

\* what resolving a path that must not be sent has to report
Expected(path) ==
    CASE ~FileThere(path) -> "media-not-found"
      [] FileThere(path) /\ ~TypeKnown(path) -> "unsupported-type"
      [] FileThere(path) /\ TypeKnown(path) /\ ~SizeAllowed(path) -> "too-large"
      [] OTHER -> "ok"

\* C16: no media send is issued for an attachment whose file does not exist,
\* whose MIME type is unknown or whose size exceeds 16 MiB; every media send
\* follows the resolution of its attachment; a failed resolution reports the
\* first failing check in the order existence, MIME type, size (a missing
\* file is not-found whatever its type, an existing file over 16 MiB with a
\* known type is too-large) and is followed by no send of that attachment.
C16_NoSendOfUnresolvableMedia ==
    \A j \in 1..Len(calls) :
        /\ calls[j].op = "sendMedia" =>
              /\ FileThere(PathOf(calls[j]))
              /\ TypeKnown(PathOf(calls[j]))
              /\ SizeAllowed(PathOf(calls[j]))
              /\ \E m \in 1..(j - 1) :
                    /\ calls[m].op = "resolve"
                    /\ calls[m].i = calls[j].i /\ calls[m].k = calls[j].k
        /\ calls[j].op = "resolve" =>
              IF Expected(PathOf(calls[j])) = "ok"
                THEN j < Len(calls) => calls[j + 1].op \notin ResolutionErrors
                ELSE /\ j < Len(calls)
                     /\ calls[j + 1].op = Expected(PathOf(calls[j]))
                     /\ \A m \in (j + 1)..Len(calls) :
                           ~(calls[m].op = "sendMedia" /\ calls[m].i = calls[j].i
                             /\ calls[m].k = calls[j].k)

\* the bulk route has sent a picture and then found the video that follows it
\* too large, which ended the recipient
C16_Witness ==
    /\ bpc = "done"
    /\ req.route = "bulk"
    /\ req.mediaFiles = <<"uploads/a.jpg", "uploads/big.mp4">>
    /\ \E j, m \in 1..Len(calls) :
          /\ calls[j].op = "sendMedia" /\ calls[j].k = 1
          /\ calls[m].op = "too-large" /\ calls[m].k = 2 /\ calls[m].i = calls[j].i
    /\ results.failed # <<>>

\* --- C17
\* positions of a batch handler suspended at a client call or a timer
SuspendedPcs == AwaitPcs \cup {"delayMsg", "delayMedia"}

\* a shutdown of client c has been requested or has completed
ShutdownRequested(c) ==
    \/ ~inst[c].live
    \/ \E h \in HandlerIds : handlers[h].pc = "awaitDestroy" /\ handlers[h].target = c

\* C17: while a batch is suspended at a registration check, a send or a
\* delay, no destroy() or start() touches the handle; hence no client call of
\* a batch is issued on a handle whose shutdown has been requested or has
\* completed, and all client calls of a batch go to the same instance.
C17_NoTeardownDuringDispatch ==
    /\ [][(bpc \in SuspendedPcs) =>
            (client' = client /\ inst' = inst /\
             \A h \in HandlerIds : (handlers'[h].pc = handlers[h].pc))]_vars
    /\ [][IssuesClientCall => ~ShutdownRequested(client)]_vars
    /\ [](\A j, m \in 1..Len(calls) :
            (calls[j].op \in ClientOps /\ calls[m].op \in ClientOps) =>
                calls[j].on = calls[m].on)

\* C17, its consequences alone: every client call goes to a handle with no
\* shutdown requested, and all calls of the batch to one instance
C17_CallsOnOneUntouchedClient ==
    /\ [][IssuesClientCall => ~ShutdownRequested(client)]_vars
    /\ [](\A j, m \in 1..Len(calls) :
            (calls[j].op \in ClientOps /\ calls[m].op \in ClientOps) =>
                calls[j].on = calls[m].on)

\* --- C18
\* the batch has passed the precondition checks and has not answered yet
BatchRunning == bpc \notin {"idle", "done"}

\* C18: a batch that has passed the precondition checks answers, and answers
\* once: provided every client call returns or fails, it reaches its answer
\* whatever the outcomes of its calls and whatever disconnect requests and
\* lifecycle events come in between; only the batch handler itself ends the
\* batch, no teardown does, and an answer once given is not changed.
C18_BatchRunsToCompletion ==
    /\ BatchRunning ~> (bpc = "done" /\ response.code \in {200, 500})
    /\ [][response' # response =>
            (response = NoBatchResponse /\ bpc # "done" /\ bpc' = "done")]_vars
    /\ [][(bpc = "done") => (bpc' = "done")]_vars
    /\ [][(BatchRunning /\ bvars' # bvars) =>
            (svars' = svars /\ (bpc' = "done" => response' # NoBatchResponse))]_vars

\* a bulk batch has answered with its results although the client was
\* replaced under it: its calls went to two instances
C18_Witness ==
    /\ bpc = "done"
    /\ req.route = "bulk"
    /\ response = [code |-> 200, body |-> "results"]
    /\ Len(results.success) + Len(results.failed) = 2
    /\ \E j, m \in 1..Len(calls) :
          /\ calls[j].op \in ClientOps /\ calls[m].op \in ClientOps
          /\ calls[j].on # calls[m].on

\* --- C19
\* client c is no longer the newest instance: a later initializeWhatsApp() has
\* constructed another one
Replaced(c) == \E d \in MadeClients : d > c

\* this step is a listener of client c handling one of its lifecycle events
LifecycleEventOf(c) ==
    \/ \E qr \in QrPayloads : OnQr(c, qr)
    \/ \E p \in Percents : OnLoadingScreen(c, p)
    \/ OnReady(c)
    \/ OnAuthenticated(c)
    \/ OnAuthFailure(c)
    \/ OnDisconnected(c)

\* C19: a lifecycle event emitted by a client instance that a later start()
\* has replaced changes neither the status nor qrCodeData and tears nothing
\* down.
C19_StaleEventsChangeNothing ==
    [][\A c \in ClientIds : (Replaced(c) /\ LifecycleEventOf(c)) =>
          (connectionStatus' = connectionStatus /\ qrCodeData' = qrCodeData /\
           client' = client /\ handlers' = handlers)]_vars

\* C19 in terms of states: no replaced instance is left able to emit events
C19_NoReplacedClientLive ==
    \A c \in ClientIds : Replaced(c) => ~inst[c].live

\* --- C20
\* what a rejected client.initialize() does, and what it leaves alone
InitFailureEffect ==
    \A c \in ClientIds : InitializeSettles(c, FALSE) =>
        /\ connectionStatus' = "disconnected"
        /\ folders' \cap FoldersToDelete = {}
        /\ client' = client
        /\ NoStart

\* nothing starts a client, the status stays disconnected and the handle stays
\* as it is
StaysDisconnected ==
    /\ NoStart
    /\ connectionStatus' = "disconnected"
    /\ client' = client

\* this step is the arrival of a disconnect request or of a lifecycle event
ExternalTrigger ==
    \/ DisconnectRequest
    \/ \E c \in ClientIds : LifecycleEventOf(c)

\* C20 as stated: a failed connect handshake sets the status to disconnected,
\* wipes the folders and starts no client; the status then stays disconnected
\* and the handle stays set until a disconnect request or a lifecycle event
\* of a client occurs.
C20_NoStartAfterInitFailure ==
    [][InitFailureEffect /\
       (initFailed => (StaysDisconnected \/ ExternalTrigger))]_vars

\* C20 amended: as above, except that a teardown already begun by an earlier
\* disconnect request or 'disconnected' event may still complete.
C20_NoStartAfterInitFailureUnlessPending ==
    [][InitFailureEffect /\
       ((initFailed /\ ~TeardownPending) =>
            (StaysDisconnected \/ ExternalTrigger))]_vars

\* the handshake of the current client has failed with no teardown in
\* progress: the session sits in disconnected, folders wiped, handle set
C20_Witness ==
    /\ initFailed
    /\ ~TeardownPending
    /\ connectionStatus = "disconnected"
    /\ client # Null
    /\ inst[client].live /\ ~inst[client].initPending
    /\ folders \cap FoldersToDelete = {}
    /\ \E h \in HandlerIds : handlers[h].pc = "done"

====
